---------------------------- MODULE Spec2Model ----------------------------
(***************************************************************************)
(* A model of ioc_rs: ServiceCollection (registration, build),             *)
(* ServiceProvider (get), the lifetime policies Transient / Shared /       *)
(* Singleton with their initialise-once cells, and ServiceIterator.        *)
(*                                                                         *)
(* Conventions.                                                            *)
(*  - A position (Rust usize index i into a Vec) is the 1-based index i+1  *)
(*    of a TLA+ sequence; Option<usize> is 0 for None and i+1 for Some(i). *)
(*  - A producer (the raw pointer to a boxed closure) is the number of the *)
(*    registration call that created it, 1, 2, ... in call order; regs[p]  *)
(*    holds what the closure captured.                                     *)
(*  - A value made by a factory is [ptr |-> p, n |-> k]: the k-th          *)
(*    invocation of producer p's creator.  NoValue is Option::None.        *)
(***************************************************************************)
EXTENDS Integers, Sequences, FiniteSets, TLC

\* ------------------------------------------------------------------ bounds
\* Registration calls made on one collection.
MaxRegs == 3
\* Registration calls through with<..>() in one collection (SpecBuild).
MaxWith == 1
\* Application-level operations (get, next, last, count) one thread makes.
MaxOps == 3
\* Application-level operations of one thread when two threads run.
MaxConcOps == 2
\* Operations on all-registrations sequences one thread makes (SpecIter).
MaxIterOps == 5

\* ------------------------------------------------------------- descriptors
Kinds == {"Transient", "Shared", "Singleton"}
Types == {"A", "B"}
Threads == {"t1", "t2"}

\* TypeId::of::<Kind<Type>>(): an injective, otherwise arbitrary numbering.
TypeIdOf(kind, type) ==
    CASE kind = "Shared"    /\ type = "A" -> 1
      [] kind = "Transient" /\ type = "B" -> 2
      [] kind = "Transient" /\ type = "A" -> 3
      [] kind = "Singleton" /\ type = "B" -> 4
      [] kind = "Singleton" /\ type = "A" -> 5
      [] kind = "Shared"    /\ type = "B" -> 6

\* A resolution descriptor: Transient<T> / Shared<T> / Singleton<T> ("one"),
\* TransientServices<T> / SharedServices<T> / SingletonServices<T> ("all"),
\* or ServiceProvider ("provider").  A tuple is a sequence of descriptors.
One(kind, type) == [shape |-> "one", kind |-> kind, type |-> type]
All(kind, type) == [shape |-> "all", kind |-> kind, type |-> type]
ProviderDesc == [shape |-> "provider", kind |-> "-", type |-> "-"]

OneDescs == {One(k, ty) : k \in Kinds, ty \in Types}
AllDescs == {All(k, ty) : k \in Kinds, ty \in Types}

\* The key a "one" or "all" descriptor searches for.
KeyOf(d) == TypeIdOf(d.kind, d.type)

NoValue == [ptr |-> 0, n |-> 0]

VARIABLES
    phase,      \* "collecting" | "built" | "failed" | "dropped"
    col,        \* ServiceCollection: [producers, dep_checkers]
    regs,       \* what each producer's closure captured, by registration number
    prov,       \* ServiceProvider.producers
    buildErr,   \* the descriptor named by BuildError::MissingDependency, or ProviderDesc
    released,   \* producer -> times its box was dropped
    cell,       \* producer -> OnceCell: [state, val, owner]
    calls,      \* producer -> invocations of its creator
    received,   \* producer -> the argument its creator was last called with
    stack,      \* thread -> frames of producer closures being run, top last
    pending,    \* thread -> the application-level operation in flight
    result,     \* thread -> what the last finished operation returned
    iter,       \* thread -> the ServiceIterator the application holds
    ops,        \* thread -> operations begun
    panicked    \* threads that panicked

vars == <<phase, col, regs, prov, buildErr, released, cell, calls, received,
          stack, pending, result, iter, ops, panicked>>

\* ---------------------------------------------------------------- helpers
\* <[_]>::sort_by_key(|(id,_)| *id): a stable sort (insertion of each element
\* after every element whose key is not greater).
UnstableInsert(sorted, x) ==
    LET k == Cardinality({i \in 1..Len(sorted) : sorted[i].key < x.key})
    IN  SubSeq(sorted, 1, k) \o <<x>> \o SubSeq(sorted, k + 1, Len(sorted))

\* A sort that keeps one entry per key.
InsertOncePerKey(sorted, x) ==
    LET k == Cardinality({i \in 1..Len(sorted) : sorted[i].key <= x.key})
    IN  IF \E i \in 1..Len(sorted) : sorted[i].key = x.key THEN sorted
        ELSE SubSeq(sorted, 1, k) \o <<x>> \o SubSeq(sorted, k + 1, Len(sorted))

InsertByKey(sorted, x) ==
    LET k == Cardinality({i \in 1..Len(sorted) : sorted[i].key <= x.key})
    IN  SubSeq(sorted, 1, k) \o <<x>> \o SubSeq(sorted, k + 1, Len(sorted))

RECURSIVE sort_by_key(_)
sort_by_key(s) ==
    IF s = << >> THEN << >>
    ELSE InsertByKey(sort_by_key(SubSeq(s, 1, Len(s) - 1)), s[Len(s)])

\* <[_]>::binary_search_by_key over the half-open range [lo, hi): the index of
\* a matching entry, 0 for Err(_).
RECURSIVE BinarySearchIn(_, _, _, _)
BinarySearchIn(s, key, lo, hi) ==
    IF lo >= hi THEN 0
    ELSE LET mid == (lo + hi) \div 2
         IN  IF s[mid].key = key THEN mid
             ELSE IF s[mid].key < key THEN BinarySearchIn(s, key, mid + 1, hi)
             ELSE BinarySearchIn(s, key, lo, mid)

binary_search_by_key(s, key) == BinarySearchIn(s, key, 1, Len(s) + 1)

\* ------------------------------------------------------- ServiceCollection
\* add_dynamic_checker::<T>: the checker pushed on dep_checkers, named by T.
add_dynamic_checker(d) == <<d>>

\* An all-registrations dependency checked like a single-value one.
CheckedServices(d) == IF d.shape = "all" THEN <<One(d.kind, d.type)>> ELSE << >>

\* Resolvable::add_resolvable_checker, the trait's default: nothing is added
\* (ServiceProvider, the all-registrations descriptors).
DefaultChecker(d) == << >>

\* Transient<T>::add_resolvable_checker
TransientChecker(d) == add_dynamic_checker(d)

\* A Shared<T> left with the trait's default: no checker.
UncheckedShared(d) == << >>

\* Shared<T>::add_resolvable_checker
SharedChecker(d) == add_dynamic_checker(d)

\* Singleton<T>::add_resolvable_checker
SingletonChecker(d) == add_dynamic_checker(d)

\* T::add_resolvable_checker for one element of a dependency tuple.
CheckersOfDesc(d) ==
    CASE d.shape = "one" /\ d.kind = "Transient" -> TransientChecker(d)
      [] d.shape = "one" /\ d.kind = "Shared" -> SharedChecker(d)
      [] d.shape = "one" /\ d.kind = "Singleton" -> SingletonChecker(d)
      [] OTHER -> DefaultChecker(d)

\* A tuple checker that stops after its first element.
FirstElementChecker(deps) ==
    IF deps = << >> THEN << >> ELSE CheckersOfDesc(Head(deps))

\* (T0, T1, ..)::add_resolvable_checker: each element's, left to right.
RECURSIVE add_resolvable_checker(_)
add_resolvable_checker(deps) ==
    IF deps = << >> THEN << >>
    ELSE CheckersOfDesc(Head(deps)) \o add_resolvable_checker(Tail(deps))

\* The closure add_dynamic_checker::<T> pushed, run on a collection's
\* producers: TRUE for Ok(()), FALSE for Err(MissingDependency(type_name::<T>())).
RunChecker(d, producers) == binary_search_by_key(producers, KeyOf(d)) # 0

\* A build that runs every checker and keeps the last Err.
LastFailing(checkers, producers) ==
    LET bad == {i \in 1..Len(checkers) : ~RunChecker(checkers[i], producers)}
    IN  IF bad = {} THEN 0 ELSE CHOOSE i \in bad : \A j \in bad : i >= j

\* The first checker, in dep_checkers order, that fails; 0 when none does.
FirstFailing(checkers, producers) ==
    LET bad == {i \in 1..Len(checkers) : ~RunChecker(checkers[i], producers)}
    IN  IF bad = {} THEN 0 ELSE CHOOSE i \in bad : \A j \in bad : i <= j

\* The BuildError variant a failed build returned: the checkers construct
\* MissingDependency, and nothing constructs CyclicDependency.
BuildErrorKind(failed) == IF failed THEN "MissingDependency" ELSE "-"

\* One registration call: the closure's captured data.
Reg(kind, type, deps) == [kind |-> kind, type |-> type, deps |-> deps]

EmptyCell == [state |-> "empty", val |-> NoValue, owner |-> "-"]

\* ServiceCollection::new
EmptyCollection == [producers |-> << >>, dep_checkers |-> << >>]

\* register_transient / register_shared / register_singleton, on the
\* collection (deps = << >>) or on with::<deps>(): the dependency's checkers
\* are appended (TDep::add_resolvable_checker), then the (TypeId, producer)
\* pair is pushed.
PushRegistration(c, r) ==
    [producers |-> Append(c.producers,
                     [key |-> TypeIdOf(r.kind, r.type), ptr |-> Len(c.producers) + 1]),
     dep_checkers |-> c.dep_checkers \o add_resolvable_checker(r.deps)]


\* The collection a sequence of registration calls makes.
RECURSIVE Registered(_)
Registered(rs) ==
    IF rs = << >> THEN EmptyCollection
    ELSE PushRegistration(Registered(SubSeq(rs, 1, Len(rs) - 1)), rs[Len(rs)])

\* What the application keeps of a finished operation: the operation, the
\* key asked for, the value or count returned, and how the value was come
\* by: "made" by this call's own run of the factory, "found" in an
\* initialised cell, "waited" for while another thread initialised the cell,
\* "-" when no producer was called.
Res(op, key, val, cnt, how) ==
    [op |-> op, key |-> key, val |-> val, cnt |-> cnt, how |-> how]

NoResult == Res("none", 0, NoValue, 0, "-")

\* The call a thread is inside: its operation and key, and for a provided
\* Iterator method running over next() the count and the last item so far.
Pending(op, key) == [op |-> op, key |-> key, cnt |-> 0, val |-> NoValue]
NoPending == Pending("idle", 0)
NoIter == [live |-> FALSE, kind |-> "-", type |-> "-", next_pos |-> 0, nexts |-> 0]

InitRun ==
    /\ phase = "collecting"
    /\ prov = << >>
    /\ buildErr = ProviderDesc
    /\ stack = [t \in Threads |-> << >>]
    /\ pending = [t \in Threads |-> NoPending]
    /\ result = [t \in Threads |-> NoResult]
    /\ iter = [t \in Threads |-> NoIter]
    /\ ops = [t \in Threads |-> 0]
    /\ panicked = {}

Init ==
    /\ InitRun
    /\ col = EmptyCollection
    /\ regs = << >>
    /\ released = << >>
    /\ cell = << >>
    /\ calls = << >>
    /\ received = << >>

\* The registrations made through with::<..>() so far.
WithCalls == {p \in 1..Len(regs) : regs[p].deps # << >>}

Register(r) ==
    /\ phase = "collecting"
    /\ Len(regs) < MaxRegs
    /\ regs' = Append(regs, r)
    /\ col' = PushRegistration(col, r)
    /\ released' = Append(released, 0)
    /\ cell' = Append(cell, EmptyCell)
    /\ calls' = Append(calls, 0)
    /\ received' = Append(received, << >>)
    /\ UNCHANGED <<phase, prov, buildErr, stack, pending, result, iter, ops, panicked>>

\* A provider or collection without Drop: the boxed closures are leaked.
ReleaseNone(producers) == released

\* Drop for ServiceCollection / ServiceProvider: every producer of the list
\* is released once.
ReleaseAll(producers) ==
    [p \in DOMAIN released |->
        released[p] + Cardinality({i \in 1..Len(producers) : producers[i].ptr = p})]

\* A build that sorts the producers by descending key.
SortedDescending(c) ==
    LET up == sort_by_key(c.producers)
    IN  [i \in 1..Len(up) |-> up[Len(up) + 1 - i]]

\* A build that leaves the producers in registration order.
Unsorted(c) == c.producers

\* build's first statement: self.producers sorted by key.
Sorted(c) == sort_by_key(c.producers)

\* build's loop over dep_checkers, run against the sorted collection: the
\* checker whose Err the `?` returns, 0 when all are Ok.
FailingChecker(c) == FirstFailing(c.dep_checkers, Sorted(c))

\* A build that copies the producers into the provider and keeps them.
LeftAfterCopy(ok, sorted) == sorted

\* The producers `self` still holds when build drops it: all of them on Err,
\* none once mem::swap has moved them out for the provider.
LeftInCollection(ok, sorted) == IF ok THEN << >> ELSE sorted

\* A build that constructs every singleton before it returns.
SingletonsInvokedByBuild(producers) ==
    [p \in DOMAIN calls |-> IF regs[p].kind = "Singleton" THEN calls[p] + 1 ELSE calls[p]]

\* The invocation counts build leaves: it calls the checkers, each a search
\* of the collection's keys, and no producer.
InvokedByBuild(producers) == calls

\* ServiceCollection::build: sort, run the checkers in order with `?`, move
\* the producers into the provider.  `self` is dropped on both paths: with
\* its producers on Err, with none left on Ok.
build ==
    /\ phase = "collecting"
    /\ LET sorted == Sorted(col)
           bad == FailingChecker(col)
       IN  IF bad = 0
           THEN /\ phase' = "built"
                /\ prov' = sorted
                /\ UNCHANGED buildErr
           ELSE /\ phase' = "failed"
                /\ buildErr' = col.dep_checkers[bad]
                /\ UNCHANGED prov
    /\ released' = ReleaseAll(LeftInCollection(FailingChecker(col) = 0, Sorted(col)))
    /\ col' = EmptyCollection
    /\ calls' = InvokedByBuild(Sorted(col))
    /\ UNCHANGED <<regs, cell, received, stack, pending, result, iter, ops, panicked>>

\* ------------------------------------------------------------ binary_search
\* The first index of [lo, hi) whose key is not less than `key` (hi if none).
RECURSIVE LowerBound(_, _, _, _)
LowerBound(s, key, lo, hi) ==
    IF lo >= hi THEN lo
    ELSE LET mid == (lo + hi) \div 2
         IN  IF s[mid].key < key THEN LowerBound(s, key, mid + 1, hi)
             ELSE LowerBound(s, key, lo, mid)

\* The first index of [lo, hi) whose key is greater than `key` (hi if none).
RECURSIVE UpperBound(_, _, _, _)
UpperBound(s, key, lo, hi) ==
    IF lo >= hi THEN lo
    ELSE LET mid == (lo + hi) \div 2
         IN  IF s[mid].key <= key THEN UpperBound(s, key, mid + 1, hi)
             ELSE UpperBound(s, key, lo, mid)

\* binary_search::binary_search_by_first_key: the first entry of a sorted
\* slice with the key, 0 for None.
binary_search_by_first_key(s, key) ==
    LET lb == LowerBound(s, key, 1, Len(s) + 1)
    IN  IF lb <= Len(s) /\ s[lb].key = key THEN lb ELSE 0

\* binary_search::binary_search_by_last_key: the last entry of a sorted slice
\* with the key, 0 for None.
binary_search_by_last_key(s, key) ==
    LET ub == UpperBound(s, key, 1, Len(s) + 1)
    IN  IF ub > 1 /\ s[ub - 1].key = key THEN ub - 1 ELSE 0

\* --------------------------------------------------------- ServiceProvider
\* A transient lookup made with the shared key of the type.
TransientResolveAsShared(producers, d) ==
    binary_search_by_last_key(producers, KeyOf(One("Shared", d.type)))

\* Transient<T>::resolve: the position of the entry to call, 0 for None.
TransientResolve(producers, d) == binary_search_by_last_key(producers, KeyOf(d))

\* A shared lookup that takes the first entry with the key.
SharedResolveFirst(producers, d) == binary_search_by_first_key(producers, KeyOf(d))

\* Shared<T>::resolve
SharedResolve(producers, d) == binary_search_by_last_key(producers, KeyOf(d))

\* Singleton<T>::resolve
SingletonResolve(producers, d) == binary_search_by_last_key(producers, KeyOf(d))

ResolveOne(producers, d) ==
    CASE d.kind = "Transient" -> TransientResolve(producers, d)
      [] d.kind = "Shared" -> SharedResolve(producers, d)
      [] d.kind = "Singleton" -> SingletonResolve(producers, d)

\* GenericServices::Resolvable: the single-value descriptor whose entries an
\* all-registrations descriptor walks.
TransientServicesResolvable(d) == One("Transient", d.type)
\* SharedServices<T> given the Resolvable of SingletonServices<T>.
SharedServicesAsSingleton(d) == One("Singleton", d.type)

SharedServicesResolvable(d) == One("Shared", d.type)
SingletonServicesResolvable(d) == One("Singleton", d.type)

ServicesResolvable(d) ==
    CASE d.kind = "Transient" -> TransientServicesResolvable(d)
      [] d.kind = "Shared" -> SharedServicesResolvable(d)
      [] d.kind = "Singleton" -> SingletonServicesResolvable(d)

\* A sequence that starts at the first entry whose key is not less than the
\* one asked for, whether or not it is that key.
ServicesResolveFrom(producers, d) ==
    LET i == LowerBound(producers, KeyOf(ServicesResolvable(d)), 1, Len(producers) + 1)
    IN  IF i <= Len(producers) THEN i ELSE 0

\* TServices::resolve: next_pos of the new ServiceIterator.
ServicesResolve(producers, d) ==
    binary_search_by_first_key(producers, KeyOf(ServicesResolvable(d)))

\* Every closure given a cell, the transient one too.
EveryKindCached(kind) == TRUE

\* Whether register_<kind> gives the closure a OnceCell: register_shared and
\* register_singleton do, register_transient calls creator directly.
HasCell(kind) == kind # "Transient"

\* A frame: the closure of the producer at prov[pos] being run by a thread.
\* init is FALSE until the closure is inside get_or_init's initialiser (a
\* transient closure has no cell and starts there); pc counts the elements
\* of the dependency tuple whose resolve_prechecked has been begun, args the
\* values resolved so far; waited tells that the thread was parked on the cell.
Frame(pos) ==
    [pos |-> pos, init |-> ~HasCell(regs[prov[pos].ptr].kind),
     pc |-> 0, args |-> << >>, waited |-> FALSE]

Top(t) == stack[t][Len(stack[t])]
Pop(t) == SubSeq(stack[t], 1, Len(stack[t]) - 1)

ArgOne(v) == [shape |-> "one", val |-> v, next_pos |-> 0]
ArgAll(np) == [shape |-> "all", val |-> NoValue, next_pos |-> np]
ArgProvider == [shape |-> "provider", val |-> NoValue, next_pos |-> 0]

Idle(t) == stack[t] = << >> /\ pending[t].op = "idle" /\ t \notin panicked

CanBegin(t, maxOps) == phase = "built" /\ Idle(t) /\ ops[t] < maxOps

\* The provided Iterator methods an application reaches through by_ref().
ByRefOps == {"by_ref_last", "by_ref_count"}

\* A producer closure returns v to what called it: the dependent closure
\* below it on the stack, or the application's get / next / last.
ReturnTo(t, v, how) ==
    IF Len(stack[t]) = 1 /\ pending[t].op \in ByRefOps
    THEN /\ stack' = [stack EXCEPT ![t] = << >>]
         /\ pending' = [pending EXCEPT ![t].cnt = @ + 1, ![t].val = v]
         /\ UNCHANGED result
    ELSE IF Len(stack[t]) = 1
    THEN /\ stack' = [stack EXCEPT ![t] = << >>]
         /\ result' = [result EXCEPT ![t] =
                         Res(pending[t].op, pending[t].key, v, 0, how)]
         /\ pending' = [pending EXCEPT ![t] = NoPending]
    ELSE /\ stack' = [stack EXCEPT ![t] =
                        [Pop(t) EXCEPT ![Len(stack[t]) - 1].args = Append(@, ArgOne(v))]]
         /\ UNCHANGED <<result, pending>>

\* ServiceProvider::get::<Transient<T> | Shared<T> | Singleton<T>>: T::resolve,
\* the last entry with the key, called through resolve_unchecked.
Get(t, d, maxOps) ==
    /\ CanBegin(t, maxOps)
    /\ ops' = [ops EXCEPT ![t] = @ + 1]
    /\ LET pos == ResolveOne(prov, d)
       IN  IF pos = 0
           THEN /\ result' = [result EXCEPT ![t] =
                                 Res("get", KeyOf(d), NoValue, 0, "-")]
                /\ UNCHANGED <<stack, pending>>
           ELSE /\ stack' = [stack EXCEPT ![t] = <<Frame(pos)>>]
                /\ pending' = [pending EXCEPT ![t] = Pending("get", KeyOf(d))]
                /\ UNCHANGED result
    /\ UNCHANGED <<phase, col, regs, prov, buildErr, released, cell, calls, received,
                   iter, panicked>>

\* ServiceProvider::get::<TransientServices<T> | ..>: TServices::resolve, a
\* ServiceIterator at the first entry with the key.
GetAll(t, d, maxOps) ==
    /\ CanBegin(t, maxOps)
    /\ ops' = [ops EXCEPT ![t] = @ + 1]
    /\ iter' = [iter EXCEPT ![t] =
                  [live |-> TRUE, kind |-> d.kind, type |-> d.type,
                   next_pos |-> ServicesResolve(prov, d),
                   nexts |-> 0]]
    /\ result' = [result EXCEPT ![t] =
                    Res("iter", KeyOf(d), NoValue, 0, "-")]
    /\ UNCHANGED <<phase, col, regs, prov, buildErr, released, cell, calls, received,
                   stack, pending, panicked>>

\* once_cell::sync::OnceCell::get_or_init on an initialised cell: the value.
EnterHit(t) ==
    /\ stack[t] # << >> /\ t \notin panicked
    /\ ~Top(t).init
    /\ cell[prov[Top(t).pos].ptr].state = "done"
    /\ ReturnTo(t, cell[prov[Top(t).pos].ptr].val, IF Top(t).waited THEN "waited" ELSE "found")
    /\ UNCHANGED <<phase, col, regs, prov, buildErr, released, cell, calls, received,
                   iter, ops, panicked>>

\* A cell without mutual exclusion: a thread finding the cell being
\* initialised runs the initialiser too.
EnterRace(t) ==
    /\ stack[t] # << >> /\ t \notin panicked
    /\ ~Top(t).init /\ ~Top(t).waited
    /\ cell[prov[Top(t).pos].ptr].state = "running"
    /\ stack' = [stack EXCEPT ![t][Len(stack[t])].init = TRUE]
    /\ UNCHANGED <<phase, col, regs, prov, buildErr, released, cell, calls, received,
                   pending, result, iter, ops, panicked>>

\* get_or_init on a cell another call is initialising: the thread parks on
\* the cell, and goes on (EnterHit) once the cell is initialised.
EnterWait(t) ==
    /\ stack[t] # << >> /\ t \notin panicked
    /\ ~Top(t).init /\ ~Top(t).waited
    /\ cell[prov[Top(t).pos].ptr].state = "running"
    /\ stack' = [stack EXCEPT ![t][Len(stack[t])].waited = TRUE]
    /\ UNCHANGED <<phase, col, regs, prov, buildErr, released, cell, calls, received,
                   pending, result, iter, ops, panicked>>

\* get_or_init on an empty cell: this thread becomes the initialiser.
EnterInit(t) ==
    /\ stack[t] # << >> /\ t \notin panicked
    /\ ~Top(t).init
    /\ cell[prov[Top(t).pos].ptr].state = "empty"
    /\ cell' = [cell EXCEPT ![prov[Top(t).pos].ptr] =
                  [state |-> "running", val |-> NoValue, owner |-> t]]
    /\ stack' = [stack EXCEPT ![t][Len(stack[t])].init = TRUE]
    /\ UNCHANGED <<phase, col, regs, prov, buildErr, released, calls, received,
                   pending, result, iter, ops, panicked>>

\* The cells a panicking thread was initialising go back to empty.
Unwound(t) ==
    [p \in DOMAIN cell |->
        IF cell[p].state = "running" /\ cell[p].owner = t THEN EmptyCell ELSE cell[p]]

\* TDep::resolve_prechecked, one tuple element at a time: a single-value
\* element is resolved and unwrapped, an all-registrations element is a
\* ServiceIterator, the provider is itself.
ResolveDep(t) ==
    /\ stack[t] # << >> /\ t \notin panicked
    /\ Top(t).init
    /\ Top(t).pc < Len(regs[prov[Top(t).pos].ptr].deps)
    /\ LET f == Top(t)
           d == regs[prov[f.pos].ptr].deps[f.pc + 1]
           n == Len(stack[t])
           pos == IF d.shape = "one" THEN ResolveOne(prov, d) ELSE 0
       IN  CASE d.shape = "one" /\ pos = 0 ->
                  /\ panicked' = panicked \cup {t}
                  /\ stack' = [stack EXCEPT ![t] = << >>]
                  /\ pending' = [pending EXCEPT ![t] = NoPending]
                  /\ cell' = Unwound(t)
             [] d.shape = "one" /\ pos # 0 ->
                  /\ stack' = [stack EXCEPT ![t] =
                                 Append([stack[t] EXCEPT ![n].pc = f.pc + 1], Frame(pos))]
                  /\ UNCHANGED <<cell, pending, panicked>>
             [] d.shape = "all" ->
                  /\ stack' = [stack EXCEPT ![t][n] =
                                 [f EXCEPT !.pc = f.pc + 1,
                                           !.args = Append(@, ArgAll(ServicesResolve(prov, d)))]]
                  /\ UNCHANGED <<cell, pending, panicked>>
             [] d.shape = "provider" ->
                  /\ stack' = [stack EXCEPT ![t][n] =
                                 [f EXCEPT !.pc = f.pc + 1, !.args = Append(@, ArgProvider)]]
                  /\ UNCHANGED <<cell, pending, panicked>>
    /\ UNCHANGED <<phase, col, regs, prov, buildErr, released, calls, received,
                   result, iter, ops>>

\* The cell once get_or_init's initialiser has returned v.
CellLeftEmpty(v) == EmptyCell

\* An initialiser that returns its value without publishing it in the cell.
CellStillRunning(v) == [state |-> "running", val |-> NoValue, owner |-> "-"]

CellInitialised(v) == [state |-> "done", val |-> v, owner |-> "-"]

\* creator(arg): the factory runs with the resolved dependencies; a shared or
\* singleton closure stores the value in its cell before returning it.
Create(t) ==
    /\ stack[t] # << >> /\ t \notin panicked
    /\ Top(t).init
    /\ Top(t).pc = Len(regs[prov[Top(t).pos].ptr].deps)
    /\ LET f == Top(t)
           p == prov[f.pos].ptr
           v == [ptr |-> p, n |-> calls[p] + 1]
       IN  /\ calls' = [calls EXCEPT ![p] = @ + 1]
           /\ received' = [received EXCEPT ![p] = f.args]
           /\ cell' = IF ~HasCell(regs[p].kind) THEN cell
                      ELSE [cell EXCEPT ![p] = CellInitialised(v)]
           /\ ReturnTo(t, v, "made")
    /\ UNCHANGED <<phase, col, regs, prov, buildErr, released, iter, ops, panicked>>

\* A next() that steps to the following entry whatever its key.
AdvancePastKey(producers, i, key) == IF i + 1 <= Len(producers) THEN i + 1 ELSE 0

\* ServiceIterator::next, the new next_pos: the following entry if it has the
\* key, None otherwise.
Advance(producers, i, key) ==
    IF i + 1 <= Len(producers) /\ producers[i + 1].key = key THEN i + 1 ELSE 0

\* ServiceIterator::next
IterNext(t, maxOps) ==
    /\ CanBegin(t, maxOps)
    /\ iter[t].live
    /\ ops' = [ops EXCEPT ![t] = @ + 1]
    /\ LET i == iter[t].next_pos
       IN  IF i = 0
           THEN /\ result' = [result EXCEPT ![t] =
                                 Res("next", KeyOf(iter[t]), NoValue, 0, "-")]
                /\ iter' = [iter EXCEPT ![t].nexts = @ + 1]
                /\ UNCHANGED <<stack, pending>>
           ELSE /\ iter' = [iter EXCEPT
                              ![t].next_pos = Advance(prov, i, KeyOf(iter[t])),
                              ![t].nexts = @ + 1]
                /\ stack' = [stack EXCEPT ![t] = <<Frame(i)>>]
                /\ pending' = [pending EXCEPT ![t] = Pending("next", KeyOf(iter[t]))]
                /\ UNCHANGED result
    /\ UNCHANGED <<phase, col, regs, prov, buildErr, released, cell, calls, received,
                   panicked>>

\* binary_search_by_last_key(&self.provider.producers[i..], ..): the last entry
\* with the key, as a position within the slice that starts at next_pos.
LastFrom(producers, i, key) ==
    binary_search_by_last_key(SubSeq(producers, i, Len(producers)), key)

\* The entry at next_pos taken for the last entry of the run.
FirstOfRun(i, pos) == i

\* The position within the slice taken for a position of the list.
LastPosInSlice(i, pos) == pos

\* last's `i+pos`: the position in the list of the slice's entry pos.
LastPos(i, pos) == i + pos - 1

\* A terminal call that walks the sequence to its end before it takes it.
ConsumedAtEnd(it) == [it EXCEPT !.live = FALSE, !.next_pos = 0]

\* last(self) and count(self) take the sequence by value: the caller has no
\* sequence afterwards.
Consumed(it) == [it EXCEPT !.live = FALSE]

\* ServiceIterator::last(self): the sequence is consumed.
IterLast(t, maxOps) ==
    /\ CanBegin(t, maxOps)
    /\ iter[t].live
    /\ ops' = [ops EXCEPT ![t] = @ + 1]
    /\ iter' = [iter EXCEPT ![t] = Consumed(@)]
    /\ LET i == iter[t].next_pos
           pos == LastFrom(prov, i, KeyOf(iter[t]))
       IN  IF i = 0
           THEN /\ result' = [result EXCEPT ![t] =
                                 Res("last", KeyOf(iter[t]), NoValue, 0, "-")]
                /\ UNCHANGED <<stack, pending, panicked>>
           ELSE IF pos = 0
           THEN /\ panicked' = panicked \cup {t}
                /\ UNCHANGED <<stack, pending, result>>
           ELSE /\ stack' = [stack EXCEPT ![t] = <<Frame(LastPos(i, pos))>>]
                /\ pending' = [pending EXCEPT ![t] = Pending("last", KeyOf(iter[t]))]
                /\ UNCHANGED <<result, panicked>>
    /\ UNCHANGED <<phase, col, regs, prov, buildErr, released, cell, calls, received>>

\* The 0-based position of the last entry taken for the count.
CountZeroBased(pos) == pos - 1

\* count's `pos + 1`, pos being the 0-based position pos - 1 of the model's
\* 1-based one: the number of entries from next_pos to the last of the key.
CountOf(pos) == (pos - 1) + 1

\* ServiceIterator::count(self): the sequence is consumed.
IterCount(t, maxOps) ==
    /\ CanBegin(t, maxOps)
    /\ iter[t].live
    /\ ops' = [ops EXCEPT ![t] = @ + 1]
    /\ iter' = [iter EXCEPT ![t] = Consumed(@)]
    /\ LET i == iter[t].next_pos
           pos == LastFrom(prov, i, KeyOf(iter[t]))
       IN  IF i = 0
           THEN /\ result' = [result EXCEPT ![t] =
                                 Res("count", KeyOf(iter[t]), NoValue, 0, "-")]
                /\ UNCHANGED panicked
           ELSE IF pos = 0
           THEN /\ panicked' = panicked \cup {t}
                /\ UNCHANGED result
           ELSE /\ result' = [result EXCEPT ![t] =
                                 Res("count", KeyOf(iter[t]), NoValue, CountOf(pos), "-")]
                /\ UNCHANGED panicked
    /\ UNCHANGED <<phase, col, regs, prov, buildErr, released, cell, calls, received,
                   stack, pending>>

\* by_ref().last() / by_ref().count(): ServiceIterator implements Iterator,
\* so &mut ServiceIterator has the provided last and count, which fold over
\* next() (Drain) and leave the sequence to the caller.
ByRef(t, op, maxOps) ==
    /\ CanBegin(t, maxOps)
    /\ iter[t].live
    /\ ops' = [ops EXCEPT ![t] = @ + 1]
    /\ pending' = [pending EXCEPT ![t] = Pending(op, KeyOf(iter[t]))]
    /\ UNCHANGED <<phase, col, regs, prov, buildErr, released, cell, calls, received,
                   stack, result, iter, panicked>>

\* One round of the fold: next() on the sequence, the item kept (last) or
\* counted (count) when its producer returns; the fold ends on None.
Drain(t) ==
    /\ phase = "built"
    /\ stack[t] = << >> /\ t \notin panicked
    /\ pending[t].op \in ByRefOps
    /\ LET i == iter[t].next_pos
       IN  IF i = 0
           THEN /\ result' = [result EXCEPT ![t] =
                                 Res(pending[t].op, pending[t].key,
                                     IF pending[t].op = "by_ref_last"
                                     THEN pending[t].val ELSE NoValue,
                                     IF pending[t].op = "by_ref_count"
                                     THEN pending[t].cnt ELSE 0, "-")]
                /\ pending' = [pending EXCEPT ![t] = NoPending]
                /\ UNCHANGED <<stack, iter>>
           ELSE /\ iter' = [iter EXCEPT
                              ![t].next_pos = Advance(prov, i, KeyOf(iter[t])),
                              ![t].nexts = @ + 1]
                /\ stack' = [stack EXCEPT ![t] = <<Frame(i)>>]
                /\ UNCHANGED <<result, pending>>
    /\ UNCHANGED <<phase, col, regs, prov, buildErr, released, cell, calls, received,
                   ops, panicked>>

\* drop(Box::from_raw(..)) of producer p's closure drops the OnceCell the
\* closure captured, and with it the value the cell holds: the number of
\* times the singleton value of p has been dropped.
ValueDrops(p) == IF cell[p].state = "done" THEN released[p] ELSE 0

\* Drop for ServiceProvider, once no call on it is in flight.
DropProvider ==
    /\ phase = "built"
    /\ \A t \in Threads : stack[t] = << >> /\ pending[t].op = "idle"
    /\ phase' = "dropped"
    /\ released' = ReleaseAll(prov)
    /\ UNCHANGED <<col, regs, prov, buildErr, cell, calls, received, stack, pending,
                   result, iter, ops, panicked>>

\* ------------------------------------------------------------ specifications
\* The registration calls of the single-threaded specification: the three
\* lifetimes of type A without dependency, and type B registered through
\* with::<..>() on a single value, on a pair, and on a triple of the
\* provider, an all-registrations sequence and a single value.
RegMenu ==
    {Reg("Transient", "A", << >>), Reg("Shared", "A", << >>), Reg("Singleton", "A", << >>),
     Reg("Transient", "B", <<One("Transient", "A")>>),
     Reg("Shared", "B", <<One("Singleton", "A"), One("Shared", "A")>>),
     Reg("Singleton", "B", <<ProviderDesc, All("Transient", "B"), One("Shared", "B")>>)}

Main == {"t1"}

Next ==
    \/ \E r \in RegMenu : Register(r)
    \/ build
    \/ \E t \in Main, d \in OneDescs : Get(t, d, MaxOps)
    \/ \E t \in Main, d \in AllDescs : GetAll(t, d, MaxOps)
    \/ \E t \in Main : EnterHit(t)
    \/ \E t \in Main : EnterInit(t)
    \/ \E t \in Main : ResolveDep(t)
    \/ \E t \in Main : Create(t)
    \/ \E t \in Main : IterNext(t, MaxOps)
    \/ \E t \in Main : IterLast(t, MaxOps)
    \/ \E t \in Main : IterCount(t, MaxOps)
    \/ DropProvider

Spec == Init /\ [][Next]_vars

\* Registration and build alone, over dependency tuples of every length the
\* crate implements Resolvable for.
MaxTuple == 4

TuplesOver(S) == UNION {[1..n -> S] : n \in 1..MaxTuple}

BuildPlain ==
    {Reg("Transient", "A", << >>), Reg("Shared", "A", << >>), Reg("Singleton", "B", << >>)}

\* Tuples of length 1..4 with One<Singleton B> at any one position (or none)
\* among One<Transient A>, the Shared, All and provider dependencies, and a
\* transient B that depends on Transient<B>.
BuildDeps ==
    {t \in TuplesOver({One("Transient", "A"), One("Singleton", "B")}) :
        Cardinality({i \in DOMAIN t : t[i] = One("Singleton", "B")}) <= 1}
    \cup {<<One("Shared", "A")>>, <<One("Transient", "A"), One("Shared", "A")>>,
          <<All("Shared", "A")>>, <<ProviderDesc>>,
          <<All("Shared", "A"), One("Transient", "A")>>,
          <<ProviderDesc, All("Transient", "B"), One("Singleton", "B")>>,
          <<One("Transient", "B")>>}

\* Transient B over each of these, and a transient A over Transient<B>.
BuildWith ==
    {Reg("Transient", "B", deps) : deps \in BuildDeps}
    \cup {Reg("Transient", "A", <<One("Transient", "B")>>)}

RegisterWith(r) ==
    /\ Cardinality(WithCalls) < MaxWith
    /\ Register(r)

NextBuild ==
    \/ \E r \in BuildPlain : Register(r)
    \/ \E r \in BuildWith : RegisterWith(r)
    \/ build

SpecBuild == Init /\ [][NextBuild]_vars

\* All-registrations sequences walked to their end and past it: producers
\* without dependencies, of two types and the three lifetimes.
IterMenu ==
    {Reg("Transient", "A", << >>), Reg("Shared", "A", << >>),
     Reg("Singleton", "A", << >>), Reg("Transient", "B", << >>)}

IterAlls == {All(k, "A") : k \in Kinds}

NextIter ==
    \/ \E r \in IterMenu : Register(r)
    \/ build
    \/ \E d \in IterAlls : GetAll("t1", d, MaxIterOps)
    \/ EnterHit("t1")
    \/ EnterInit("t1")
    \/ Create("t1")
    \/ IterNext("t1", MaxIterOps)
    \/ IterLast("t1", MaxIterOps)
    \/ IterCount("t1", MaxIterOps)
    \/ \E op \in ByRefOps : ByRef("t1", op, MaxIterOps)
    \/ Drain("t1")
    \/ DropProvider

SpecIter == Init /\ [][NextIter]_vars

\* Factories over a pair: two to four registrations of Transient<A> and
\* Shared<A> in every order, and a transient or shared B registered through
\* with::<(.., ..)>() before or after them.
PairDeps ==
    {<<One("Transient", "A"), One("Shared", "A")>>,
     <<One("Shared", "A"), One("Transient", "A")>>}

PairScenarios ==
    LET plain == {Reg("Transient", "A", << >>), Reg("Shared", "A", << >>)}
        bases == UNION {[1..n -> plain] : n \in 2..4}
        withs == {Reg(k, "B", deps) : k \in {"Transient", "Shared"}, deps \in PairDeps}
    IN  {<<w>> \o b : w \in withs, b \in bases} \cup {b \o <<w>> : w \in withs, b \in bases}

InitPair ==
    /\ InitRun
    /\ \E rs \in PairScenarios :
          /\ regs = rs
          /\ col = Registered(rs)
          /\ released = [p \in 1..Len(rs) |-> 0]
          /\ cell = [p \in 1..Len(rs) |-> EmptyCell]
          /\ calls = [p \in 1..Len(rs) |-> 0]
          /\ received = [p \in 1..Len(rs) |-> << >>]

PairGets ==
    {One("Transient", "A"), One("Shared", "A"), One("Transient", "B"), One("Shared", "B")}

NextPair ==
    \/ build
    \/ \E d \in PairGets : Get("t1", d, MaxOps)
    \/ EnterHit("t1")
    \/ EnterInit("t1")
    \/ ResolveDep("t1")
    \/ Create("t1")
    \/ DropProvider

SpecPair == InitPair /\ [][NextPair]_vars

\* Ownership of the producers from registration to drop: a transient
\* producer, a shared one whose factory takes the provider itself and an
\* all-registrations sequence, and a singleton over that shared one and the
\* provider; build fails when the shared one is not registered.
OwnMenu ==
    {Reg("Transient", "A", << >>),
     Reg("Shared", "A", <<ProviderDesc, All("Transient", "A")>>),
     Reg("Singleton", "B", <<One("Shared", "A"), ProviderDesc>>)}

OwnGets == {One("Transient", "A"), One("Shared", "A"), One("Singleton", "B")}
OwnAlls == {All("Transient", "A"), All("Shared", "A")}

NextOwn ==
    \/ \E r \in OwnMenu : Register(r)
    \/ build
    \/ \E d \in OwnGets : Get("t1", d, MaxOps)
    \/ \E d \in OwnAlls : GetAll("t1", d, MaxOps)
    \/ EnterHit("t1")
    \/ EnterInit("t1")
    \/ ResolveDep("t1")
    \/ Create("t1")
    \/ IterNext("t1", MaxOps)
    \/ DropProvider

SpecOwn == Init /\ [][NextOwn]_vars

\* Two threads on one provider.  The collections the provider is built from:
\* one cached producer, two of one key, two of different keys registered
\* against the key order, a dependency chain of cached producers, and a
\* transient producer over a cached one.
ConcScenarios ==
    {<<Reg("Shared", "A", << >>)>>,
     <<Reg("Singleton", "A", << >>), Reg("Singleton", "A", << >>)>>,
     <<Reg("Singleton", "A", << >>), Reg("Shared", "A", << >>)>>,
     <<Reg("Singleton", "A", << >>), Reg("Shared", "A", << >>),
       Reg("Shared", "B", <<One("Singleton", "A"), One("Shared", "A")>>)>>,
     <<Reg("Shared", "B", << >>),
       Reg("Singleton", "B", <<ProviderDesc, All("Transient", "B"), One("Shared", "B")>>)>>}

InitConc ==
    /\ InitRun
    /\ \E rs \in ConcScenarios :
          /\ regs = rs
          /\ col = Registered(rs)
          /\ released = [p \in 1..Len(rs) |-> 0]
          /\ cell = [p \in 1..Len(rs) |-> EmptyCell]
          /\ calls = [p \in 1..Len(rs) |-> 0]
          /\ received = [p \in 1..Len(rs) |-> << >>]

ConcGets == {One(k, ty) : k \in {"Shared", "Singleton"}, ty \in Types}
ConcAlls == {All("Singleton", "A"), All("Shared", "B")}

NextConc ==
    \/ build
    \/ \E t \in Threads, d \in ConcGets : Get(t, d, MaxConcOps)
    \/ \E t \in Threads, d \in ConcAlls : GetAll(t, d, MaxConcOps)
    \/ \E t \in Threads : EnterHit(t)
    \/ \E t \in Threads : EnterWait(t)
    \/ \E t \in Threads : EnterInit(t)
    \/ \E t \in Threads : ResolveDep(t)
    \/ \E t \in Threads : Create(t)
    \/ \E t \in Threads : IterNext(t, MaxConcOps)
    \/ DropProvider

SpecConc == InitConc /\ [][NextConc]_vars

\* What thread t does next inside the call it has begun: get and the closures
\* it enters are synchronous, so a thread that can go on does.
Step(t) ==
    \/ EnterHit(t)
    \/ EnterWait(t)
    \/ EnterInit(t)
    \/ ResolveDep(t)
    \/ Create(t)

\* Two threads calling get on cached producers that depend on one another,
\* without a dependency cycle: a shared producer over a singleton and a shared
\* one, and a singleton over the provider, a sequence and a shared producer.
LiveScenarios ==
    {<<Reg("Singleton", "A", << >>), Reg("Shared", "A", << >>),
       Reg("Shared", "B", <<One("Singleton", "A"), One("Shared", "A")>>)>>,
     <<Reg("Shared", "B", << >>),
       Reg("Singleton", "B", <<ProviderDesc, All("Transient", "B"), One("Shared", "B")>>)>>}

InitLive ==
    /\ InitRun
    /\ \E rs \in LiveScenarios :
          /\ regs = rs
          /\ col = Registered(rs)
          /\ released = [p \in 1..Len(rs) |-> 0]
          /\ cell = [p \in 1..Len(rs) |-> EmptyCell]
          /\ calls = [p \in 1..Len(rs) |-> 0]
          /\ received = [p \in 1..Len(rs) |-> << >>]

NextLive ==
    \/ build
    \/ \E t \in Threads, d \in ConcGets : Get(t, d, MaxConcOps)
    \/ \E t \in Threads : Step(t)
    \/ DropProvider

\* The two threads under a scheduler that lets every thread run.
SpecLive == InitLive /\ [][NextLive]_vars /\ \A t \in Threads : WF_vars(Step(t))

\* ------------------------------------------------------------------ claims
\* The producers registered under a key, by registration number.
ProducersOfKey(k) ==
    {p \in 1..Len(regs) : TypeIdOf(regs[p].kind, regs[p].type) = k}

LastRegistered(k) ==
    CHOOSE p \in ProducersOfKey(k) : \A q \in ProducersOfKey(k) : q <= p

\* C1: a finished single-value get for a key with at least one registration
\* returned a value made by the factory registered last under that key,
\* whatever other keys were registered in between.
C1_LastRegisteredWins ==
    \A t \in Threads :
        (result[t].op = "get" /\ ProducersOfKey(result[t].key) # {})
            => /\ result[t].val.ptr = LastRegistered(result[t].key)
               /\ result[t].val.n >= 1

\* Two registrations of the key with another key registered between them,
\* and a get that returned the later one's value.
C1_Witness ==
    \E t \in Threads :
        /\ result[t].op = "get"
        /\ \E p, q, r \in 1..Len(regs) :
              /\ p < q /\ q < r
              /\ {p, r} \subseteq ProducersOfKey(result[t].key)
              /\ q \notin ProducersOfKey(result[t].key)
              /\ result[t].val.ptr = r

Cached(p) == regs[p].kind \in {"Shared", "Singleton"}

\* Every value a call has handed out: to the application, or to a dependent
\* factory as its argument.
HandedOut ==
    {result[t].val : t \in Threads}
    \cup UNION {{received[p][i].val : i \in 1..Len(received[p])} : p \in 1..Len(received)}

\* C2: a shared or singleton factory is invoked at most once, every value of
\* it that any call returned is the instance its cell holds, and a cell that
\* holds a value keeps that value in every step made while the provider lives.
C2_CachedOnce ==
    /\ [](\A p \in 1..Len(regs) : Cached(p) =>
            /\ calls[p] <= 1
            /\ \A v \in HandedOut : v.ptr = p => (cell[p].state = "done" /\ v = cell[p].val))
    /\ [][\A p \in 1..Len(regs) :
            (cell[p].state = "done" /\ phase' # "dropped") => cell'[p] = cell[p]]_vars

\* A second get of a shared or singleton key came out of the initialised
\* cell, with the instance its one factory invocation made.
C2_Witness ==
    \E t \in Threads :
        /\ result[t].op = "get" /\ result[t].how = "found"
        /\ result[t].val.ptr # 0
        /\ Cached(result[t].val.ptr)
        /\ regs[result[t].val.ptr].deps # << >>
        /\ calls[result[t].val.ptr] = 1
        /\ result[t].val = cell[result[t].val.ptr].val

\* Every value of a producer that a thread holds: returned to the
\* application, passed to a factory, or resolved for a factory still waiting
\* for its other dependencies.
Observed ==
    HandedOut
    \cup UNION {UNION {{stack[t][i].args[j].val : j \in 1..Len(stack[t][i].args)}
                         : i \in 1..Len(stack[t])} : t \in Threads}

\* The threads running the initialiser of producer p's cell.
Initialising(p) ==
    {t \in Threads : \E i \in 1..Len(stack[t]) :
        stack[t][i].init /\ prov[stack[t][i].pos].ptr = p}

\* C3: under two threads resolving the same shared or singleton producers,
\* each factory is invoked at most once, at most one thread is ever inside a
\* cell's initialiser, no thread holds a value of a producer whose cell is
\* not initialised, and every value held is the one the cell holds.
C3_RaceInitialisesOnce ==
    \A p \in 1..Len(regs) : Cached(p) =>
        /\ calls[p] <= 1
        /\ Cardinality(Initialising(p)) <= 1
        /\ (cell[p].state = "running") = (Initialising(p) # {})
        /\ (cell[p].state = "done") = (calls[p] = 1)
        /\ \A v \in Observed : v.ptr = p => (cell[p].state = "done" /\ v = cell[p].val)

\* Both threads asked for the same key while its cell was not initialised:
\* one ran the factory, the other was parked until it had, and both returned
\* the one instance.
C3_Witness ==
    /\ result["t1"].op = "get" /\ result["t2"].op = "get"
    /\ result["t1"].how = "made" /\ result["t2"].how = "waited"
    /\ result["t1"].val.ptr # 0
    /\ result["t1"].val = result["t2"].val
    /\ regs[result["t1"].val.ptr].deps # << >>
    /\ calls[result["t1"].val.ptr] = 1

\* The single-value descriptors some registration declared as a dependency,
\* directly or as a tuple element.
DeclaredDeps ==
    UNION {{regs[p].deps[i] : i \in {j \in 1..Len(regs[p].deps) : regs[p].deps[j].shape = "one"}}
             : p \in 1..Len(regs)}

MissingDeps == {d \in DeclaredDeps : ProducersOfKey(KeyOf(d)) = {}}

\* C4: once build has run on a collection in which a declared single-value
\* dependency, at whatever position of its tuple, has no producer, build has
\* failed and MissingDependency names a descriptor (type and lifetime) that
\* was declared and has no producer.
C4_MissingDependencyFails ==
    (phase # "collecting" /\ MissingDeps # {})
        => /\ phase = "failed"
           /\ buildErr \in MissingDeps

\* The third element of a 4-tuple is the one missing dependency, its type is
\* registered under another lifetime, and build named it.
C4_Witness ==
    /\ phase = "failed"
    /\ \E p \in 1..Len(regs) :
          /\ Len(regs[p].deps) = 4
          /\ regs[p].deps[3] = buildErr
          /\ \A i \in {1, 2, 4} : ProducersOfKey(KeyOf(regs[p].deps[i])) # {}
    /\ \E k \in Kinds : ProducersOfKey(TypeIdOf(k, buildErr.type)) # {}

\* The registration calls rs made in the order f, a permutation of 1..Len(rs).
Permuted(rs, f) == [i \in 1..Len(rs) |-> rs[f[i]]]

OrdersOf(n) ==
    {f \in [1..n -> 1..n] : \A i, j \in 1..n : f[i] = f[j] => i = j}

\* Whether build returns Ok on the collection the registration calls rs make.
BuildsOk(rs) == FailingChecker(Registered(rs)) = 0

\* C5: build on the registration calls made so far, in the order made and in
\* every other order, returns Ok exactly when every declared single-value
\* dependency has at least one producer; and that is what build returned.
C5_OrderIndependent ==
    /\ \A f \in OrdersOf(Len(regs)) : BuildsOk(Permuted(regs, f)) = (MissingDeps = {})
    /\ phase = "built" => MissingDeps = {}
    /\ phase = "failed" => MissingDeps # {}

\* A built collection whose dependent registration came first and whose
\* dependency was then registered twice.
C5_Witness ==
    /\ phase = "built"
    /\ \E p, q, r \in 1..Len(regs) :
          /\ p < q /\ q < r
          /\ \E i \in 1..Len(regs[p].deps) :
                /\ regs[p].deps[i].shape = "one"
                /\ ProducersOfKey(KeyOf(regs[p].deps[i])) = {q, r}

\* The number of registrations of a key, and the j-th of them in
\* registration order.
Registrations(k) == Cardinality(ProducersOfKey(k))

NthRegistered(k, j) ==
    CHOOSE p \in ProducersOfKey(k) : Cardinality({q \in ProducersOfKey(k) : q <= p}) = j

Unregistered(k) == k # 0 /\ ProducersOfKey(k) = {}

\* C6: for a key without producer no call panics and none runs a producer: a
\* single-value get has returned none, a sequence obtained for the key has no
\* position, and its next() and last() have returned none and its count() 0.
\* It holds of the provider built from no registration as of any other.
C6_UnknownKeyIsNone ==
    \A t \in Threads :
        /\ t \notin panicked
        /\ ~Unregistered(pending[t].key)
        /\ Unregistered(result[t].key)
              => result[t].val = NoValue /\ result[t].cnt = 0 /\ result[t].how = "-"
        /\ (iter[t].live /\ Unregistered(KeyOf(iter[t]))) => iter[t].next_pos = 0

\* A transient get that returned none on a provider holding the type under
\* the shared lifetime, after a sequence for an unregistered key counted 0.
C6_Witness ==
    /\ phase = "built"
    /\ result["t1"].op = "get" /\ result["t1"].val = NoValue
    /\ result["t1"].key = TypeIdOf("Transient", "A")
    /\ ProducersOfKey(TypeIdOf("Shared", "A")) # {}
    /\ ~iter["t1"].live /\ iter["t1"].kind # "-" /\ Unregistered(KeyOf(iter["t1"]))
    /\ ops["t1"] = 3

\* The larger of n - k and 0.
Remaining(n, k) == IF k >= n THEN 0 ELSE n - k

\* C7: count() has returned the number of registrations of the sequence's
\* exact (type, lifetime) key less the number of next() calls made on the
\* sequence before, and 0 once those calls are as many as the registrations.
C7_CountIsRemaining ==
    \A t \in Threads :
        (Idle(t) /\ result[t].op = "count")
            => result[t].cnt = Remaining(Registrations(result[t].key), iter[t].nexts)

\* count() returned 1 after one next() on a sequence over two registrations,
\* with the type registered under another lifetime and another type
\* registered as well.
C7_Witness ==
    /\ Idle("t1") /\ result["t1"].op = "count" /\ result["t1"].cnt = 1
    /\ iter["t1"].nexts = 1
    /\ Registrations(result["t1"].key) = 2
    /\ \E p \in 1..Len(regs) :
          /\ p \notin ProducersOfKey(result["t1"].key)
          /\ p < LastRegistered(result["t1"].key)

\* C8: the k-th next() on a sequence has returned a value of the k-th
\* producer registered under the sequence's key while k is at most the number
\* of those producers, and none for every k beyond it.
C8_NextInRegistrationOrder ==
    \A t \in Threads :
        (Idle(t) /\ result[t].op = "next")
            => IF iter[t].nexts <= Registrations(result[t].key)
               THEN /\ result[t].val.ptr = NthRegistered(result[t].key, iter[t].nexts)
                    /\ result[t].val.n >= 1
               ELSE result[t].val = NoValue

\* The second none in a row, from a sequence over two registrations made
\* around a registration of another key.
C8_Witness ==
    /\ Idle("t1") /\ result["t1"].op = "next" /\ result["t1"].val = NoValue
    /\ Registrations(result["t1"].key) = 2
    /\ iter["t1"].nexts = 4
    /\ \E q \in 1..Len(regs) :
          /\ q \notin ProducersOfKey(result["t1"].key)
          /\ NthRegistered(result["t1"].key, 1) < q
          /\ q < NthRegistered(result["t1"].key, 2)

\* C9: last() after k calls of next() has returned a value of the producer
\* registered last under the key when k is less than the number of
\* registrations, and none otherwise; on a sequence whose next() calls are
\* not fewer than the registrations count() has returned 0 and a further
\* next() none.
C9_LastAfterNexts ==
    \A t \in Threads :
        LET n == Registrations(result[t].key)
            k == iter[t].nexts
        IN  /\ (Idle(t) /\ result[t].op = "last")
                  => IF k < n
                     THEN /\ result[t].val.ptr = LastRegistered(result[t].key)
                          /\ result[t].val.n >= 1
                     ELSE result[t].val = NoValue
            /\ (Idle(t) /\ result[t].op = "count" /\ k >= n) => result[t].cnt = 0
            /\ (Idle(t) /\ result[t].op = "next" /\ k > n) => result[t].val = NoValue

\* last() after one next() on a sequence over three registrations returned
\* the third one's value.
C9_Witness ==
    /\ Idle("t1") /\ result["t1"].op = "last"
    /\ iter["t1"].nexts = 1
    /\ Registrations(result["t1"].key) = 3
    /\ result["t1"].val.ptr = 3

\* last() and count(), called by value or through by_ref().
TerminalOps == {"last", "count"} \cup ByRefOps

C11_NoTraversal ==
    [][\A t \in Threads :
          /\ (result'[t].op = "count" /\ ops'[t] # ops[t])
                => calls' = calls /\ stack'[t] = << >> /\ pending'[t] = NoPending
          /\ pending[t].op = "last"
                => \A p \in DOMAIN calls :
                      calls'[p] # calls[p]
                         => /\ p = LastRegistered(pending[t].key)
                            /\ calls'[p] = calls[p] + 1
                            /\ pending'[t] = NoPending
          /\ pending'[t].op = "last" /\ pending[t].op # "last" => calls' = calls]_vars

\* last() on a fresh sequence over three transient registrations returned
\* after one invocation of the third factory and none of the other two.
C11_Witness ==
    /\ Idle("t1") /\ result["t1"].op = "last" /\ result["t1"].how = "made"
    /\ iter["t1"].nexts = 0
    /\ ProducersOfKey(result["t1"].key) = {1, 2, 3}
    /\ calls = <<0, 0, 1>>

\* C12: a factory registered over a tuple of single-value dependencies has,
\* in its latest invocation, received one value per tuple element, each made
\* by the producer registered last under the element's key: the instance in
\* that producer's cell when it is shared or singleton, one of its
\* invocations when it is transient; a get for an element's key has returned
\* a value of that same producer.
C12_TupleRoundTrip ==
    \A p \in 1..Len(regs) :
        calls[p] >= 1 =>
            /\ Len(received[p]) = Len(regs[p].deps)
            /\ \A i \in 1..Len(regs[p].deps) :
                  regs[p].deps[i].shape = "one" =>
                      LET k == KeyOf(regs[p].deps[i])
                          v == received[p][i].val
                      IN  /\ received[p][i].shape = "one"
                          /\ ProducersOfKey(k) # {}
                          /\ v.ptr = LastRegistered(k)
                          /\ v.n \in 1..calls[v.ptr]
                          /\ Cached(v.ptr) => v = cell[v.ptr].val
                          /\ \A t \in Threads :
                                (result[t].op = "get" /\ result[t].key = k)
                                    => result[t].val.ptr = v.ptr

\* The pair factory, registered first, received the values of the later of
\* two Transient<A> and of the later of two Shared<A> registrations, and
\* get::<Shared<A>>() returned the instance the factory received.
C12_Witness ==
    /\ Len(regs) = 5 /\ Len(regs[1].deps) = 2 /\ calls[1] >= 1
    /\ \A k \in {TypeIdOf("Transient", "A"), TypeIdOf("Shared", "A")} :
          Registrations(k) = 2 /\ LastRegistered(k) >= 4
    /\ result["t1"].op = "get" /\ result["t1"].key = TypeIdOf("Shared", "A")
    /\ \E i \in 1..2 : received[1][i].val = result["t1"].val

Range(seq) == {seq[i] : i \in 1..Len(seq)}

\* The lifetime a key was registered under.
KindOfKey(k) == CHOOSE kind \in Kinds : \E ty \in Types : TypeIdOf(kind, ty) = k

\* C13: a get of a registered transient key invokes the factory registered
\* last under the key once, in the step that ends the get, and returns the
\* value of that invocation, never a stored one; a shared or singleton
\* producer whose cell holds a value, or of which a value was returned, has
\* been invoked once.
C13_InvocationCounts ==
    /\ [](\A t \in Threads :
             /\ (Idle(t) /\ result[t].op = "get" /\ result[t].val # NoValue
                 /\ KindOfKey(result[t].key) = "Transient")
                   => /\ result[t].how = "made"
                      /\ result[t].val =
                            [ptr |-> LastRegistered(result[t].key),
                             n |-> calls[LastRegistered(result[t].key)]]
             /\ \A p \in 1..Len(regs) :
                   (Cached(p) /\ (cell[p].state = "done" \/ result[t].val.ptr = p))
                       => calls[p] = 1)
    /\ [][\A t \in Threads :
             (pending[t].op = "get" /\ KindOfKey(pending[t].key) = "Transient")
                => LET last == LastRegistered(pending[t].key)
                   IN  calls'[last] = IF pending'[t] = NoPending /\ t \notin panicked'
                                      THEN calls[last] + 1 ELSE calls[last]]_vars

\* Three gets of a transient key registered twice: the later factory ran
\* three times, the earlier one never, and the third get returned the third
\* value.
C13_Witness ==
    /\ Idle("t1") /\ ops["t1"] = 3
    /\ result["t1"].op = "get" /\ KindOfKey(result["t1"].key) = "Transient"
    /\ Registrations(result["t1"].key) = 2
    /\ result["t1"].val.n = 3
    /\ calls[NthRegistered(result["t1"].key, 1)] = 0

\* C14: while registrations are made, in the step build takes, whether it
\* succeeds or fails, and after a failed build, no factory has been invoked,
\* no cell has left its empty state and no producer has been entered.
C14_NothingInvokedBeforeBuilt ==
    /\ [](phase \in {"collecting", "failed"} =>
             /\ \A p \in DOMAIN calls : calls[p] = 0 /\ cell[p] = EmptyCell
             /\ \A t \in Threads : stack[t] = << >>)
    /\ [][phase = "collecting" =>
             /\ \A p \in DOMAIN calls' : calls'[p] = 0 /\ cell'[p] = EmptyCell
             /\ \A t \in Threads : stack'[t] = << >>]_vars

\* A provider just built from three registrations, one a singleton and one
\* a shared producer depending on it: no factory has run.
C14_Witness ==
    /\ phase = "built" /\ ops["t1"] = 0
    /\ Len(regs) = 3
    /\ \E p, q \in 1..3 :
          /\ regs[p].kind = "Singleton"
          /\ regs[q].kind = "Shared" /\ One("Singleton", regs[p].type) \in Range(regs[q].deps)
    /\ \A p \in 1..3 : calls[p] = 0

\* C15: no call on a built provider panics; the build fails only in the step
\* that leaves the collecting phase; a provider exists only when every
\* declared single-value dependency has a producer; and every value resolved
\* for a single-value element of a dependency tuple, for a factory still
\* collecting its arguments or already invoked, is a present value.
C15_PrecheckedPresent ==
    /\ [](/\ panicked = {}
          /\ phase \in {"built", "dropped"} => MissingDeps = {}
          /\ \A t \in Threads : \A j \in 1..Len(stack[t]) :
                \A i \in 1..Len(stack[t][j].args) :
                    stack[t][j].args[i].shape = "one" => stack[t][j].args[i].val # NoValue
          /\ \A p \in 1..Len(regs) :
                calls[p] >= 1 =>
                    /\ Len(received[p]) = Len(regs[p].deps)
                    /\ \A i \in 1..Len(received[p]) :
                          /\ received[p][i].shape = regs[p].deps[i].shape
                          /\ received[p][i].shape = "one" => received[p][i].val # NoValue)
    /\ [][phase' = "failed" => phase \in {"collecting", "failed"}]_vars

\* A shared factory over a pair was invoked with two present values, both
\* producers of which exist.
C15_Witness ==
    \E p \in 1..Len(regs) :
        /\ regs[p].kind = "Shared" /\ Len(regs[p].deps) = 2 /\ calls[p] = 1
        /\ \A i \in 1..2 : received[p][i].val.ptr \in 1..Len(regs)
        /\ received[p][1].val.ptr # received[p][2].val.ptr

\* The producers the closure of registration p resolves: for a single-value
\* dependency the producer registered last under its key, for an
\* all-registrations dependency every producer of the key.
ResolvedBy(p) ==
    UNION {IF regs[p].deps[i].shape = "provider" \/ ProducersOfKey(KeyOf(regs[p].deps[i])) = {}
           THEN {}
           ELSE IF regs[p].deps[i].shape = "one"
           THEN {LastRegistered(KeyOf(regs[p].deps[i]))}
           ELSE ProducersOfKey(KeyOf(regs[p].deps[i]))
             : i \in 1..Len(regs[p].deps)}

RECURSIVE ReachedIn(_, _)
ReachedIn(from, n) ==
    IF n = 0 THEN from
    ELSE ReachedIn(from \cup UNION {ResolvedBy(q) : q \in from}, n - 1)

\* The declared dependencies form a cycle.
Cyclic == \E p \in 1..Len(regs) : p \in ReachedIn(ResolvedBy(p), Len(regs))

\* C16: once build has run on registrations whose declared dependencies form
\* a cycle, it has failed, with CyclicDependency, and there is no provider.
C16_CycleFailsBuild ==
    (phase # "collecting" /\ Cyclic)
        => /\ phase = "failed"
           /\ BuildErrorKind(phase = "failed") = "CyclicDependency"
           /\ prov = << >>

HoldsSharedRef ==
    {t \in Threads : /\ result[t].val.ptr # 0
                     /\ regs[result[t].val.ptr].kind = "Shared"}

\* C18: when the provider has been dropped while a SharedServiceRef obtained
\* from it was still held, the drop has panicked.
C18_DropWithLiveRefPanics ==
    (phase = "dropped" /\ HoldsSharedRef # {}) => panicked # {}

\* Every value of producer p that a get, next or last returned, that a
\* factory was invoked with, or that was resolved for a factory still
\* collecting its arguments.
SeenOf(p) ==
    {v \in {result[t].val : t \in Threads}
           \cup UNION {{received[q][i].val : i \in 1..Len(received[q])} : q \in 1..Len(received)}
           \cup UNION {UNION {{stack[t][j].args[i].val : i \in 1..Len(stack[t][j].args)}
                                : j \in 1..Len(stack[t])} : t \in Threads}
        : v.ptr = p}

\* C19: of one shared producer all paths have seen one and the same
\* instance, made by the one invocation of its factory; and a value that a
\* get or a step of a SharedServices sequence returned for a shared key is an
\* instance of a producer registered under that key.
C19_SharedOneInstance ==
    /\ \A p \in 1..Len(regs) :
          regs[p].kind = "Shared" =>
              /\ calls[p] <= 1
              /\ SeenOf(p) \subseteq {[ptr |-> p, n |-> 1]}
              /\ SeenOf(p) # {} => calls[p] = 1
    /\ \A t \in Threads :
          (result[t].val # NoValue /\ KindOfKey(result[t].key) = "Shared")
              => result[t].val.ptr \in ProducersOfKey(result[t].key)

\* next() on a SharedServices sequence found in the cell the instance that
\* the factory of a dependent shared producer had been invoked with.
C19_Witness ==
    /\ Idle("t1") /\ result["t1"].op = "next" /\ result["t1"].how = "found"
    /\ regs[result["t1"].val.ptr].kind = "Shared"
    /\ \E q \in 1..Len(regs) : \E i \in 1..Len(received[q]) :
          /\ regs[q].kind = "Shared" /\ calls[q] = 1
          /\ received[q][i].val = result["t1"].val

\* C20: the producer list of a built provider holds each registered producer
\* once and nothing else, each under the key it was registered with, in
\* ascending order of key, and in registration order where keys are equal.
C20_StableSortMoved ==
    phase = "built" =>
        /\ Len(prov) = Len(regs)
        /\ {prov[i].ptr : i \in 1..Len(prov)} = 1..Len(regs)
        /\ \A i \in 1..Len(prov) :
              prov[i].key = TypeIdOf(regs[prov[i].ptr].kind, regs[prov[i].ptr].type)
        /\ \A i, j \in 1..Len(prov) :
              i < j => \/ prov[i].key < prov[j].key
                       \/ (prov[i].key = prov[j].key /\ prov[i].ptr < prov[j].ptr)

\* Two registrations of one key followed by one of a smaller key: the third
\* registration leads the provider's list, the first two follow in order.
C20_Witness ==
    /\ phase = "built" /\ Len(regs) = 3
    /\ prov[1].ptr = 3 /\ prov[2].ptr = 1 /\ prov[3].ptr = 2
    /\ prov[1].key < prov[2].key /\ prov[2].key = prov[3].key

\* C21: no step taken while the provider lives, by either thread, in a get,
\* in the resolution of a dependency or on a sequence, changes the
\* provider's producer list; the list is in ascending order of key whenever
\* the provider lives.
C21_ProducersReadOnly ==
    /\ [](phase = "built" =>
             \A i, j \in 1..Len(prov) : i < j => prov[i].key <= prov[j].key)
    /\ [][phase = "built" => prov' = prov]_vars

\* Both threads have resolved through a list of three producers of two keys:
\* one initialised a cached producer over its dependencies, the other waited
\* for it.
C21_Witness ==
    /\ phase = "built" /\ Len(prov) = 3
    /\ prov[1].key < prov[3].key
    /\ \E t, u \in Threads :
          /\ Idle(t) /\ Idle(u)
          /\ result[t].how = "made" /\ result[u].how = "waited"
          /\ regs[result[t].val.ptr].deps # << >>

\* The places a single-value dependency was declared at: registration p,
\* tuple element i.
DeclaredAt ==
    {pi \in (1..Len(regs)) \X (1..MaxTuple) :
        /\ pi[2] <= Len(regs[pi[1]].deps)
        /\ regs[pi[1]].deps[pi[2]].shape = "one"}

\* Those whose key no registration produces.
MissingAt == {pi \in DeclaredAt : ProducersOfKey(KeyOf(regs[pi[1]].deps[pi[2]])) = {}}

\* pi was declared before qi: by an earlier registration, or further left in
\* the same tuple.
DeclaredBefore(pi, qi) == pi[1] < qi[1] \/ (pi[1] = qi[1] /\ pi[2] <= qi[2])

\* C22: a failed build names the missing single-value dependency that was
\* declared first (the earliest with::<..>().register_*() call, and within
\* its tuple the leftmost element), whatever order the registrations were
\* made in and however many dependencies are missing; build fails only when
\* one is missing from the whole collection.
C22_FirstAppendedCheckerNamed ==
    phase = "failed" =>
        \E pi \in MissingAt :
            /\ \A qi \in MissingAt : DeclaredBefore(pi, qi)
            /\ buildErr = regs[pi[1]].deps[pi[2]]

\* Two with-registrations miss three different dependencies between them, two
\* in one tuple, and build named the leftmost of the earlier registration.
C22_Witness ==
    /\ phase = "failed"
    /\ Cardinality({regs[pi[1]].deps[pi[2]] : pi \in MissingAt}) = 3
    /\ \E pi, qi \in MissingAt : pi[1] = qi[1] /\ pi[2] < qi[2]
    /\ \E pi, qi \in MissingAt : pi[1] < qi[1]
    /\ Len(regs[1].deps) = 2
    /\ buildErr = regs[1].deps[1]

\* The producers some call on the provider is inside of.
Entered ==
    UNION {{prov[stack[t][i].pos].ptr : i \in 1..Len(stack[t])} : t \in Threads}

RequestedKey(t, i) ==
    IF i = 1 THEN pending[t].key
    ELSE LET f == stack[t][i - 1]
         IN  KeyOf(regs[prov[f.pos].ptr].deps[f.pc])

\* next_pos np of a sequence over descriptor d is absent or an entry of d's
\* key from which the search of last() and count() finds the run's end.
InRun(np, d) ==
    np # 0 =>
        /\ np \in 1..Len(prov)
        /\ prov[np].key = KeyOf(ServicesResolvable(d))
        /\ LastFrom(prov, np, KeyOf(ServicesResolvable(d))) # 0
        /\ \A j \in np..LastPos(np, LastFrom(prov, np, KeyOf(ServicesResolvable(d)))) :
              prov[j].key = prov[np].key

\* C24: every call through resolve_unchecked is made with a position of the
\* provider's list whose entry has the key asked for; the next_pos of every
\* sequence, the application's and those handed to factories, is absent or
\* inside the run of its key, so the searches of last() and count() find a
\* match and no call panics.
C24_PositionsValid ==
    /\ \A t \in Threads :
          \A i \in 1..Len(stack[t]) :
              /\ stack[t][i].pos \in 1..Len(prov)
              /\ prov[stack[t][i].pos].key = RequestedKey(t, i)
              /\ \A j \in 1..Len(stack[t][i].args) :
                    stack[t][i].args[j].shape = "all" =>
                        InRun(stack[t][i].args[j].next_pos,
                              regs[prov[stack[t][i].pos].ptr].deps[j])
    /\ \A t \in Threads : iter[t].live => InRun(iter[t].next_pos, iter[t])
    /\ panicked = {}

\* A last() on a sequence that next() had advanced into a run of three
\* entries is inside the producer it found at the run's end.
C24_Witness ==
    /\ pending["t1"].op = "last"
    /\ Len(stack["t1"]) = 1
    /\ iter["t1"].nexts = 1 /\ iter["t1"].next_pos = 2
    /\ stack["t1"][1].pos = 3
    /\ Len(prov) = 3

\* C25: an all-registrations descriptor or the provider as a dependency adds
\* no checker: every checker of the collection is for a single-value
\* dependency, a failed build names a single-value dependency that has no
\* producer, and a factory that was invoked with an all-registrations
\* dependency whose type has no registration received the provider as given
\* and a sequence with no next entry.
C25_NoCheckForSequences ==
    /\ \A i \in 1..Len(col.dep_checkers) : col.dep_checkers[i].shape = "one"
    /\ phase = "failed" => buildErr \in MissingDeps
    /\ \A p \in 1..Len(regs) :
          calls[p] >= 1 =>
              \A j \in 1..Len(regs[p].deps) :
                  /\ (/\ regs[p].deps[j].shape = "all"
                      /\ ProducersOfKey(KeyOf(ServicesResolvable(regs[p].deps[j]))) = {})
                        => received[p][j] = ArgAll(0)
                  /\ regs[p].deps[j].shape = "provider" => received[p][j] = ArgProvider

\* The only registration takes the provider and all transient A, of which
\* there is none: build returned a provider and the factory ran on the
\* provider and an empty sequence.
C25_Witness ==
    /\ phase = "built"
    /\ Len(regs) = 1
    /\ regs[1].deps = <<ProviderDesc, All("Transient", "A")>>
    /\ calls[1] = 1
    /\ received[1] = <<ArgProvider, ArgAll(0)>>
    /\ result["t1"].how = "made"

\* C26: on a provider built from registrations without a dependency cycle,
\* under a scheduler that lets every thread run, every get() a thread has
\* begun returns, whatever the other thread is doing on the same cells, and
\* no call is ever nested deeper than there are producers.
C26_GetReturns ==
    /\ [](\A t \in Threads : Len(stack[t]) <= Len(prov))
    /\ \A t \in Threads :
          (pending[t].op = "get") ~> (pending[t].op = "idle" /\ result[t].op = "get")

\* A thread that is initialising one cell is parked on a second cell, which
\* the other thread is initialising.
C26_Witness ==
    \E t, u \in Threads :
        /\ t # u
        /\ Len(stack[t]) >= 2
        /\ Top(t).waited /\ ~Top(t).init
        /\ cell[prov[Top(t).pos].ptr] = [state |-> "running", val |-> NoValue, owner |-> u]
        /\ cell[prov[stack[t][1].pos].ptr].owner = t
        /\ pending[t].op = "get" /\ pending[u].op = "get"
=============================================================================
